---------------------------- MODULE Spec2Model ----------------------------
(***************************************************************************)
(* The lexical scanner of Andrew-Sem/programming-lang.                      *)
(*                                                                         *)
(* tokenize (src/src/lexer/lexer.rs) is modelled one action per arm of the  *)
(* match inside its scan loop, plus the loop exit that appends the EOF      *)
(* token and returns.  The duplicate tokenize of src/src/lexer.rs is        *)
(* modelled the same way on its own variables (prefix dup_).                *)
(*                                                                         *)
(* A character is a one-element string; the characters outside ASCII are    *)
(* written by code point ("U+00B2" is SUPERSCRIPT TWO).  A Rust String and  *)
(* a VecDeque<char> are sequences of characters, a Vec<Token> a sequence    *)
(* of records [value, type_].                                               *)
(***************************************************************************)
EXTENDS Integers, Sequences, FiniteSets, TLC

VARIABLES source_code, src, tokens, pc, returned,
          dup_src, dup_tokens, dup_pc, dup_returned

vars == <<source_code, src, tokens, pc, returned,
          dup_src, dup_tokens, dup_pc, dup_returned>>

mainVars == <<src, tokens, pc, returned>>
dupVars == <<dup_src, dup_tokens, dup_pc, dup_returned>>

---------------------------------------------------------------------------
(* Character classes, as the Rust standard library decides them.           *)

\* The eight characters matched by the literal patterns of the match.
OperatorChars == {"(", ")", "+", "-", "*", "/", "%", "="}

AsciiDigits == {"0", "1", "2", "3", "4", "5", "6", "7", "8", "9"}

\* General category No: SUPERSCRIPT TWO and VULGAR FRACTION ONE HALF.
\* char::is_numeric accepts them, char::is_alphabetic does not.
OtherNumbers == {"U+00B2", "U+00BD"}

\* General category Nl: ROMAN NUMERAL EIGHT.  char::is_numeric accepts it,
\* and so does char::is_alphabetic (Nl is part of the Alphabetic property).
LetterNumbers == {"U+2167"}

AsciiLetters ==
    {"a", "b", "c", "d", "e", "f", "g", "h", "i", "j", "k", "l", "m",
     "n", "o", "p", "q", "r", "s", "t", "u", "v", "w", "x", "y", "z",
     "A", "B", "C", "D", "E", "F", "G", "H", "I", "J", "K", "L", "M",
     "N", "O", "P", "Q", "R", "S", "T", "U", "V", "W", "X", "Y", "Z"}

WhitespaceChars == {" ", "\t", "\n", "\r"}

\* Every other character of the model ("@", "_") is of no class.

\* char::is_numeric: general categories Nd, Nl and No.
IsNumeric(c) == c \in AsciiDigits \cup OtherNumbers \cup LetterNumbers

\* char::is_alphabetic: the Alphabetic property.
IsAlphabetic(c) == c \in AsciiLetters \cup LetterNumbers

\* char::is_whitespace: the White_Space property.
IsWhitespace(c) == c \in WhitespaceChars

---------------------------------------------------------------------------
(* Tokens.                                                                 *)

TokenType == {"Null", "Number", "Identifier", "Let", "Equals", "OpenParen",
              "CloseParen", "BinaryOperator", "EOF"}

\* Token::new
TokenNew(value, type_) == [value |-> value, type_ |-> type_]

\* String::from("EndOfFile")
EndOfFile == <<"E", "n", "d", "O", "f", "F", "i", "l", "e">>

\* The keyword table: keywords.get(&*ident), "None" when absent.
KeywordsGet(ident) ==
    IF ident = <<"l", "e", "t">> THEN "Let"
    ELSE IF ident = <<"n", "u", "l", "l">> THEN "Null"
    ELSE "None"

\* match keywords.get(&*ident) { Some(&t) => t, None => Identifier }
IdentType(ident) ==
    IF KeywordsGet(ident) = "None" THEN "Identifier" ELSE KeywordsGet(ident)

\* A number arm that takes one digit only (if let for while let).
NumberLoopOneDigit(num, q) == [buf |-> Append(num, Head(q)), rest |-> Tail(q)]

\* The inner loop of the number arm: while the front of the queue is
\* numeric, push it to num and pop it.
RECURSIVE NumberLoop(_, _)
NumberLoop(num, q) ==
    IF q # <<>> /\ IsNumeric(Head(q))
    THEN NumberLoop(Append(num, Head(q)), Tail(q))
    ELSE [buf |-> num, rest |-> q]

\* A letters arm that stops as soon as the buffer is a keyword.
RECURSIVE LetterLoopKeywordPrefix(_, _)
LetterLoopKeywordPrefix(ident, q) ==
    IF q # <<>> /\ IsAlphabetic(Head(q)) /\ KeywordsGet(ident) = "None"
    THEN LetterLoopKeywordPrefix(Append(ident, Head(q)), Tail(q))
    ELSE [buf |-> ident, rest |-> q]

\* The inner loop of the letters arm: while the front of the queue is
\* alphabetic, push it to ident and pop it.
RECURSIVE LetterLoop(_, _)
LetterLoop(ident, q) ==
    IF q # <<>> /\ IsAlphabetic(Head(q))
    THEN LetterLoop(Append(ident, Head(q)), Tail(q))
    ELSE [buf |-> ident, rest |-> q]

---------------------------------------------------------------------------
(* Inputs.                                                                 *)

MaxLen == 3

\* The characters of the exhaustively enumerated inputs: at least one of
\* every class, and the letters of the keyword "let".
Alphabet == {"(", "=", "-", "5", "U+00B2", "U+2167", "l", "e", "t", "x",
             " ", "@"}

RECURSIVE SeqsUpTo(_, _)
SeqsUpTo(S, n) ==
    IF n = 0 THEN {<<>>}
    ELSE LET shorter == SeqsUpTo(S, n - 1)
         IN  shorter \cup {Append(s, c) : s \in {t \in shorter : Len(t) = n - 1}, c \in S}

\* The sources of the unit tests of lexer/lexer.rs (and of main.rs).
TestSimpleCode ==
    <<"l", "e", "t", " ", "x", " ", "=", " ", "4", "5", " ", "*", " ",
      "(", "4", " ", "/", " ", "3", ")">>
TestKeywords == <<"n", "u", "l", "l", " ", "l", "e", "t">>
TestIntNumbers ==
    <<"0", " ", "2", " ", "9", " ", "4", "5", "6", "7", "8", "9", "0">>
TestVariableNames ==
    <<"x", " ", "y", " ", "z", " ",
      "s", "o", "m", "e", "V", "a", "r", "i", "a", "b", "l", "e", " ",
      "V", "A", "R", "I", "A", "B", "L", "E">>
TestWhitespaces == <<"\n", "\t", " ", " ", "\r", "\n">>
TestOperators == <<"+", " ", "-", " ", "*", " ", "/", " ", "%">>

TestInputs == {TestSimpleCode, TestKeywords, TestIntNumbers,
               TestVariableNames, TestWhitespaces, TestOperators}

\* Further named inputs, longer than MaxLen or over other characters.
ExtraInputs ==
    {<<"4", "5">>, <<"l", "e", "t", "x">>, <<"n", "u", "l", "l">>,
     <<"n", "u", "l", "l", "x">>, <<"L", "e", "t">>, <<"L", "E", "T">>,
     <<"N", "U", "L", "L">>, <<"a", "b", "c", "1", "2", "3">>,
     <<"*", "*">>, <<"_">>, <<"U+00BD">>, EndOfFile,
     <<"x", " ", "@", " ", "y">>, <<"(", "1", "+", "2", ")", "%", "7">>}

Inputs == SeqsUpTo(Alphabet, MaxLen) \cup TestInputs \cup ExtraInputs

---------------------------------------------------------------------------
(* tokenize of src/src/lexer/lexer.rs.                                     *)

Init ==
    /\ source_code \in Inputs
    /\ src = source_code          \* source_code.chars().collect()
    /\ tokens = <<>>              \* Vec::new()
    /\ pc = "scan"
    /\ returned = <<>>
    /\ dup_src = source_code
    /\ dup_tokens = <<>>
    /\ dup_pc = "scan"
    /\ dup_returned = <<>>

\* while src.len() > 0 { match src.front().copied() { ...
InLoop == pc = "scan" /\ Len(src) > 0

\* Some('(')
OpenParenArm ==
    /\ InLoop
    /\ Head(src) = "("
    /\ tokens' = Append(tokens, TokenNew(<<"(">>, "OpenParen"))
    /\ src' = Tail(src)
    /\ UNCHANGED <<source_code, pc, returned, dupVars>>

\* Some(')')
CloseParenArm ==
    /\ InLoop
    /\ Head(src) = ")"
    /\ tokens' = Append(tokens, TokenNew(<<")">>, "CloseParen"))
    /\ src' = Tail(src)
    /\ UNCHANGED <<source_code, pc, returned, dupVars>>

\* Some('+')
PlusArm ==
    /\ InLoop
    /\ Head(src) = "+"
    /\ tokens' = Append(tokens, TokenNew(<<"+">>, "BinaryOperator"))
    /\ src' = Tail(src)
    /\ UNCHANGED <<source_code, pc, returned, dupVars>>

\* A minus arm that folds the sign into a number that follows.
MinusArmSigned ==
    /\ InLoop
    /\ Head(src) = "-"
    /\ IF Len(src) > 1 /\ IsNumeric(src[2])
       THEN LET r == NumberLoop(<<"-">>, Tail(src))
            IN  /\ src' = r.rest
                /\ tokens' = Append(tokens, TokenNew(r.buf, "Number"))
       ELSE /\ tokens' = Append(tokens, TokenNew(<<"-">>, "BinaryOperator"))
            /\ src' = Tail(src)
    /\ UNCHANGED <<source_code, pc, returned, dupVars>>

\* Some('-')
MinusArm ==
    /\ InLoop
    /\ Head(src) = "-"
    /\ tokens' = Append(tokens, TokenNew(<<"-">>, "BinaryOperator"))
    /\ src' = Tail(src)
    /\ UNCHANGED <<source_code, pc, returned, dupVars>>

\* Some('*')
StarArm ==
    /\ InLoop
    /\ Head(src) = "*"
    /\ tokens' = Append(tokens, TokenNew(<<"*">>, "BinaryOperator"))
    /\ src' = Tail(src)
    /\ UNCHANGED <<source_code, pc, returned, dupVars>>

\* Some('/')
SlashArm ==
    /\ InLoop
    /\ Head(src) = "/"
    /\ tokens' = Append(tokens, TokenNew(<<"/">>, "BinaryOperator"))
    /\ src' = Tail(src)
    /\ UNCHANGED <<source_code, pc, returned, dupVars>>

\* Some('%')
PercentArm ==
    /\ InLoop
    /\ Head(src) = "%"
    /\ tokens' = Append(tokens, TokenNew(<<"%">>, "BinaryOperator"))
    /\ src' = Tail(src)
    /\ UNCHANGED <<source_code, pc, returned, dupVars>>

\* Some('=')
EqualsArm ==
    /\ InLoop
    /\ Head(src) = "="
    /\ tokens' = Append(tokens, TokenNew(<<"=">>, "Equals"))
    /\ src' = Tail(src)
    /\ UNCHANGED <<source_code, pc, returned, dupVars>>

\* Some(c) if c.is_numeric()
NumberArm ==
    /\ InLoop
    /\ Head(src) \notin OperatorChars
    /\ IsNumeric(Head(src))
    /\ LET r == NumberLoop(<<>>, src)
       IN  /\ src' = r.rest
           /\ tokens' = Append(tokens, TokenNew(r.buf, "Number"))
    /\ UNCHANGED <<source_code, pc, returned, dupVars>>

\* Some(c) if c.is_alphabetic()
LetterArm ==
    /\ InLoop
    /\ Head(src) \notin OperatorChars
    /\ ~IsNumeric(Head(src))
    /\ IsAlphabetic(Head(src))
    /\ LET r == LetterLoop(<<>>, src)
       IN  /\ src' = r.rest
           /\ tokens' = Append(tokens, TokenNew(r.buf, IdentType(r.buf)))
    /\ UNCHANGED <<source_code, pc, returned, dupVars>>

\* A whitespace arm that appends a token for the character.
WhitespaceArmToken ==
    /\ InLoop
    /\ Head(src) \notin OperatorChars
    /\ ~IsNumeric(Head(src))
    /\ ~IsAlphabetic(Head(src))
    /\ IsWhitespace(Head(src))
    /\ tokens' = Append(tokens, TokenNew(<<Head(src)>>, "Identifier"))
    /\ src' = Tail(src)
    /\ UNCHANGED <<source_code, pc, returned, dupVars>>

\* A whitespace arm without its pop_front.
WhitespaceArmNoPop ==
    /\ InLoop
    /\ Head(src) \notin OperatorChars
    /\ ~IsNumeric(Head(src))
    /\ ~IsAlphabetic(Head(src))
    /\ IsWhitespace(Head(src))
    /\ UNCHANGED <<source_code, src, tokens, pc, returned, dupVars>>

\* Some(c) if c.is_whitespace()
WhitespaceArm ==
    /\ InLoop
    /\ Head(src) \notin OperatorChars
    /\ ~IsNumeric(Head(src))
    /\ ~IsAlphabetic(Head(src))
    /\ IsWhitespace(Head(src))
    /\ src' = Tail(src)
    /\ UNCHANGED <<source_code, tokens, pc, returned, dupVars>>

\* A last arm that skips the character and goes on.
PanicArmSkip ==
    /\ InLoop
    /\ Head(src) \notin OperatorChars
    /\ ~IsNumeric(Head(src))
    /\ ~IsAlphabetic(Head(src))
    /\ ~IsWhitespace(Head(src))
    /\ src' = Tail(src)
    /\ UNCHANGED <<source_code, tokens, pc, returned, dupVars>>

\* _ => panic!(...): the call unwinds, nothing is returned.
PanicArm ==
    /\ InLoop
    /\ Head(src) \notin OperatorChars
    /\ ~IsNumeric(Head(src))
    /\ ~IsAlphabetic(Head(src))
    /\ ~IsWhitespace(Head(src))
    /\ pc' = "panic"
    /\ UNCHANGED <<source_code, src, tokens, returned, dupVars>>

\* A loop exit that returns without the EOF token.
FinishNoEof ==
    /\ pc = "scan"
    /\ ~(Len(src) > 0)
    /\ returned' = <<tokens>>
    /\ pc' = "done"
    /\ UNCHANGED <<source_code, src, tokens, dupVars>>

\* The loop exit: push the EOF token and return the vector.
Finish ==
    /\ pc = "scan"
    /\ ~(Len(src) > 0)
    /\ tokens' = Append(tokens, TokenNew(EndOfFile, "EOF"))
    /\ returned' = <<tokens'>>
    /\ pc' = "done"
    /\ UNCHANGED <<source_code, src, dupVars>>

Next ==
    \/ OpenParenArm \/ CloseParenArm \/ PlusArm \/ MinusArm
    \/ StarArm \/ SlashArm \/ PercentArm \/ EqualsArm
    \/ NumberArm \/ LetterArm \/ WhitespaceArm \/ PanicArm
    \/ Finish

Spec == Init /\ [][Next]_vars

---------------------------------------------------------------------------
(* tokenize of src/src/lexer.rs, the duplicate.  It is called on the same  *)
(* source once the call of lexer/lexer.rs has ended (the two calls share   *)
(* nothing, so the order loses no behaviour).                              *)

\* while src.len() > 0 { match src.front().copied() { ...
DupInLoop == pc # "scan" /\ dup_pc = "scan" /\ Len(dup_src) > 0

\* Some('(')
DupOpenParenArm ==
    /\ DupInLoop
    /\ Head(dup_src) = "("
    /\ dup_tokens' = Append(dup_tokens, TokenNew(<<"(">>, "OpenParen"))
    /\ dup_src' = Tail(dup_src)
    /\ UNCHANGED <<source_code, dup_pc, dup_returned, mainVars>>

\* Some(')')
DupCloseParenArm ==
    /\ DupInLoop
    /\ Head(dup_src) = ")"
    /\ dup_tokens' = Append(dup_tokens, TokenNew(<<")">>, "CloseParen"))
    /\ dup_src' = Tail(dup_src)
    /\ UNCHANGED <<source_code, dup_pc, dup_returned, mainVars>>

\* Some('+')
DupPlusArm ==
    /\ DupInLoop
    /\ Head(dup_src) = "+"
    /\ dup_tokens' = Append(dup_tokens, TokenNew(<<"+">>, "BinaryOperator"))
    /\ dup_src' = Tail(dup_src)
    /\ UNCHANGED <<source_code, dup_pc, dup_returned, mainVars>>

\* Some('-')
DupMinusArm ==
    /\ DupInLoop
    /\ Head(dup_src) = "-"
    /\ dup_tokens' = Append(dup_tokens, TokenNew(<<"-">>, "BinaryOperator"))
    /\ dup_src' = Tail(dup_src)
    /\ UNCHANGED <<source_code, dup_pc, dup_returned, mainVars>>

\* Some('*')
DupStarArm ==
    /\ DupInLoop
    /\ Head(dup_src) = "*"
    /\ dup_tokens' = Append(dup_tokens, TokenNew(<<"*">>, "BinaryOperator"))
    /\ dup_src' = Tail(dup_src)
    /\ UNCHANGED <<source_code, dup_pc, dup_returned, mainVars>>

\* Some('/')
DupSlashArm ==
    /\ DupInLoop
    /\ Head(dup_src) = "/"
    /\ dup_tokens' = Append(dup_tokens, TokenNew(<<"/">>, "BinaryOperator"))
    /\ dup_src' = Tail(dup_src)
    /\ UNCHANGED <<source_code, dup_pc, dup_returned, mainVars>>

\* Some('%')
DupPercentArm ==
    /\ DupInLoop
    /\ Head(dup_src) = "%"
    /\ dup_tokens' = Append(dup_tokens, TokenNew(<<"%">>, "BinaryOperator"))
    /\ dup_src' = Tail(dup_src)
    /\ UNCHANGED <<source_code, dup_pc, dup_returned, mainVars>>

\* Some('=')
DupEqualsArm ==
    /\ DupInLoop
    /\ Head(dup_src) = "="
    /\ dup_tokens' = Append(dup_tokens, TokenNew(<<"=">>, "Equals"))
    /\ dup_src' = Tail(dup_src)
    /\ UNCHANGED <<source_code, dup_pc, dup_returned, mainVars>>

\* A duplicate whose number arm pushes the token, as lexer/lexer.rs does.
DupNumberArmPush ==
    /\ DupInLoop
    /\ Head(dup_src) \notin OperatorChars
    /\ IsNumeric(Head(dup_src))
    /\ LET r == NumberLoop(<<>>, dup_src)
       IN  /\ dup_src' = r.rest
           /\ dup_tokens' = Append(dup_tokens, TokenNew(r.buf, "Number"))
    /\ UNCHANGED <<source_code, dup_pc, dup_returned, mainVars>>

\* Some(c) if c.is_numeric(): the run is built and dropped, no push.
DupNumberArm ==
    /\ DupInLoop
    /\ Head(dup_src) \notin OperatorChars
    /\ IsNumeric(Head(dup_src))
    /\ LET r == NumberLoop(<<>>, dup_src)
       IN  dup_src' = r.rest
    /\ UNCHANGED <<source_code, dup_tokens, dup_pc, dup_returned, mainVars>>

\* Some(c) if c.is_alphabetic()
DupLetterArm ==
    /\ DupInLoop
    /\ Head(dup_src) \notin OperatorChars
    /\ ~IsNumeric(Head(dup_src))
    /\ IsAlphabetic(Head(dup_src))
    /\ LET r == LetterLoop(<<>>, dup_src)
       IN  /\ dup_src' = r.rest
           /\ dup_tokens' = Append(dup_tokens, TokenNew(r.buf, IdentType(r.buf)))
    /\ UNCHANGED <<source_code, dup_pc, dup_returned, mainVars>>

\* Some(c) if c.is_whitespace()
DupWhitespaceArm ==
    /\ DupInLoop
    /\ Head(dup_src) \notin OperatorChars
    /\ ~IsNumeric(Head(dup_src))
    /\ ~IsAlphabetic(Head(dup_src))
    /\ IsWhitespace(Head(dup_src))
    /\ dup_src' = Tail(dup_src)
    /\ UNCHANGED <<source_code, dup_tokens, dup_pc, dup_returned, mainVars>>

\* _ => panic!(...)
DupPanicArm ==
    /\ DupInLoop
    /\ Head(dup_src) \notin OperatorChars
    /\ ~IsNumeric(Head(dup_src))
    /\ ~IsAlphabetic(Head(dup_src))
    /\ ~IsWhitespace(Head(dup_src))
    /\ dup_pc' = "panic"
    /\ UNCHANGED <<source_code, dup_src, dup_tokens, dup_returned, mainVars>>

\* The loop exit: push the EOF token and return the vector.
DupFinish ==
    /\ pc # "scan"
    /\ dup_pc = "scan"
    /\ ~(Len(dup_src) > 0)
    /\ dup_tokens' = Append(dup_tokens, TokenNew(EndOfFile, "EOF"))
    /\ dup_returned' = <<dup_tokens'>>
    /\ dup_pc' = "done"
    /\ UNCHANGED <<source_code, dup_src, mainVars>>

DupNext ==
    \/ DupOpenParenArm \/ DupCloseParenArm \/ DupPlusArm \/ DupMinusArm
    \/ DupStarArm \/ DupSlashArm \/ DupPercentArm \/ DupEqualsArm
    \/ DupNumberArm \/ DupLetterArm \/ DupWhitespaceArm \/ DupPanicArm
    \/ DupFinish

\* Both scanners, one call after the other, on the same source.
BothNext == Next \/ DupNext

DupSpec == Init /\ [][BothNext]_vars

\* The call runs on: a running call always takes its next step.
FairSpec == Spec /\ WF_vars(Next)

---------------------------------------------------------------------------
(* Vocabulary of the properties.                                           *)

EofToken == [value |-> EndOfFile, type_ |-> "EOF"]

\* The sequence handed to the caller, once tokenize has returned.
Result == returned[1]

Front(s) == SubSeq(s, 1, Len(s) - 1)

Suffix(s, i) == SubSeq(s, i, Len(s))

RECURSIVE ConcatValues(_)
ConcatValues(toks) ==
    IF toks = <<>> THEN <<>>
    ELSE toks[1].value \o ConcatValues(Tail(toks))

StripWhitespace(s) == SelectSeq(s, LAMBDA c : ~IsWhitespace(c))

\* A character of none of the scanner's classes.
Unrecognized(c) ==
    /\ c \notin OperatorChars
    /\ ~IsNumeric(c)
    /\ ~IsAlphabetic(c)
    /\ ~IsWhitespace(c)

HasUnrecognized(s) == \E i \in 1..Len(s) : Unrecognized(s[i])

FirstUnrecognized(s) ==
    CHOOSE i \in 1..Len(s) :
        Unrecognized(s[i]) /\ \A j \in 1..(i - 1) : ~Unrecognized(s[j])

\* The length of the longest prefix of s made of numeric characters.
NumericPrefixLen(s) ==
    CHOOSE k \in 0..Len(s) :
        /\ \A i \in 1..k : IsNumeric(s[i])
        /\ k = Len(s) \/ ~IsNumeric(s[k + 1])

\* The length of the longest prefix of s made of alphabetic characters.
AlphabeticPrefixLen(s) ==
    CHOOSE k \in 0..Len(s) :
        /\ \A i \in 1..k : IsAlphabetic(s[i])
        /\ k = Len(s) \/ ~IsAlphabetic(s[k + 1])

Tok(value, type_) == [value |-> value, type_ |-> type_]

---------------------------------------------------------------------------
(* C1 *)

\* C1: whenever tokenize returns, the returned sequence is non-empty, its
\* last token is EOF with lexeme "EndOfFile", no earlier token is EOF; the
\* input "EndOfFile" gives an Identifier before the EOF, and the empty
\* input gives exactly [EOF].
C1_EofLastOnly ==
    /\ Len(returned) = 1 <=> pc = "done"
    /\ pc = "done" =>
          /\ Len(Result) >= 1
          /\ Result[Len(Result)] = EofToken
          /\ \A i \in 1..(Len(Result) - 1) : Result[i].type_ # "EOF"
          /\ source_code = <<>> => Result = <<EofToken>>
          /\ source_code = EndOfFile =>
                Result = <<Tok(EndOfFile, "Identifier"), EofToken>>

C1_Witness ==
    /\ pc = "done"
    /\ source_code = EndOfFile
    /\ Len(Result) = 2
    /\ Result[1].type_ = "Identifier"

---------------------------------------------------------------------------
(* C2 *)

\* C2: on an input with a character of no class, tokenize panics with the
\* cursor at the first such character and returns nothing: the cursor
\* never passes that character, the call never ends in a return, and it
\* cannot stop before the panic; on an input of classed characters only
\* it never panics.
C2_PanicOnUnrecognized ==
    /\ HasUnrecognized(source_code) =>
          LET f == FirstUnrecognized(source_code)
          IN  /\ returned = <<>>
              /\ pc # "done"
              /\ Len(src) >= Len(source_code) - f + 1
              /\ pc = "scan" => ENABLED Next
              /\ pc = "panic" => src = Suffix(source_code, f)
              /\ \A i \in 1..Len(tokens) : tokens[i].type_ \in TokenType \ {"EOF"}
              /\ ConcatValues(tokens) =
                    StripWhitespace(SubSeq(source_code, 1, Len(source_code) - Len(src)))
    /\ ~HasUnrecognized(source_code) => pc # "panic"

C2_Witness ==
    /\ pc = "panic"
    /\ source_code = <<"x", " ", "@", " ", "y">>
    /\ tokens = <<Tok(<<"x">>, "Identifier")>>
    /\ returned = <<>>

---------------------------------------------------------------------------
(* C3 *)

C3_Examples ==
    /\ source_code = <<"4", "5">> =>
          Result = <<Tok(<<"4", "5">>, "Number"), EofToken>>
    /\ source_code = TestIntNumbers =>
          Result = <<Tok(<<"0">>, "Number"), Tok(<<"2">>, "Number"),
                     Tok(<<"9">>, "Number"),
                     Tok(<<"4", "5", "6", "7", "8", "9", "0">>, "Number"),
                     EofToken>>

C3_Step ==
    (pc = "scan" /\ src # <<>> /\ IsNumeric(Head(src))) =>
        LET k == NumericPrefixLen(src)
        IN  /\ k >= 1
            /\ tokens' = Append(tokens, Tok(SubSeq(src, 1, k), "Number"))
            /\ src' = Suffix(src, k + 1)

\* C3: when the scan loop finds a digit at the cursor, the step consumes
\* the whole maximal run of digits that starts there and appends exactly
\* one Number token whose lexeme is that run; "45" gives [Number("45"),
\* EOF] and "0 2 9 4567890" four Number tokens and the EOF.
C3_MaximalMunchNumbers ==
    [][C3_Step /\ (pc' = "done" => C3_Examples')]_vars

C3_Witness ==
    /\ pc = "done"
    /\ source_code = TestIntNumbers
    /\ Len(Result) = 5
    /\ Result[4].value = <<"4", "5", "6", "7", "8", "9", "0">>

---------------------------------------------------------------------------
(* C4 *)

KwLet == <<"l", "e", "t">>

KwNull == <<"n", "u", "l", "l">>

RunKind(run) ==
    IF run = KwLet THEN "Let" ELSE IF run = KwNull THEN "Null" ELSE "Identifier"

OneIdentifier(s) == <<Tok(s, "Identifier"), EofToken>>

C4_Examples ==
    /\ source_code = KwLet => Result = <<Tok(KwLet, "Let"), EofToken>>
    /\ source_code = KwNull => Result = <<Tok(KwNull, "Null"), EofToken>>
    /\ source_code \in {<<"l", "e", "t", "x">>, <<"n", "u", "l", "l", "x">>,
                        <<"L", "e", "t">>, <<"L", "E", "T">>,
                        <<"N", "U", "L", "L">>} =>
          Result = OneIdentifier(source_code)
    /\ source_code = TestKeywords =>
          Result = <<Tok(KwNull, "Null"), Tok(KwLet, "Let"), EofToken>>
    /\ \A i \in 1..Len(Result) :
          /\ Result[i].type_ = "Let" <=> Result[i].value = KwLet
          /\ Result[i].type_ = "Null" <=> Result[i].value = KwNull

C4_Step ==
    (pc = "scan" /\ src # <<>> /\ IsAlphabetic(Head(src)) /\ ~IsNumeric(Head(src))) =>
        LET k == AlphabeticPrefixLen(src)
            run == SubSeq(src, 1, k)
        IN  /\ tokens' = Append(tokens, Tok(run, RunKind(run)))
            /\ src' = Suffix(src, k + 1)

---------------------------------------------------------------------------
(* C5 *)

\* The digit class as the design states it: the decimal digits 0-9.
IsDecimalDigit(c) == c \in AsciiDigits

DecimalPrefixLen(s) ==
    CHOOSE k \in 0..Len(s) :
        /\ \A i \in 1..k : IsDecimalDigit(s[i])
        /\ k = Len(s) \/ ~IsDecimalDigit(s[k + 1])

\* Only operator characters, decimal digits, letters and whitespace.
DefinedClassesOnly(s) ==
    \A i \in 1..Len(s) :
        \/ s[i] \in OperatorChars
        \/ IsDecimalDigit(s[i])
        \/ IsAlphabetic(s[i])
        \/ IsWhitespace(s[i])

\* The operator characters, maximal digit runs and maximal alphabetic
\* runs of s, from left to right.
RECURSIVE Segments(_)
Segments(s) ==
    IF s = <<>> THEN <<>>
    ELSE IF Head(s) \in OperatorChars
         THEN <<(<<Head(s)>>)>> \o Segments(Tail(s))
    ELSE IF IsDecimalDigit(Head(s))
         THEN LET k == DecimalPrefixLen(s)
              IN  <<SubSeq(s, 1, k)>> \o Segments(Suffix(s, k + 1))
    ELSE IF IsAlphabetic(Head(s))
         THEN LET k == AlphabeticPrefixLen(s)
              IN  <<SubSeq(s, 1, k)>> \o Segments(Suffix(s, k + 1))
    ELSE Segments(Tail(s))

\* C5: on an input of operator characters, digits, letters and whitespace
\* only, the tokens before the EOF are, in order, the operator characters,
\* the maximal digit runs and the maximal alphabetic runs of the input, so
\* the length is their number plus one; "abc123" gives [Identifier("abc"),
\* Number("123"), EOF] and "let x = 45 * (4 / 3)" gives 11 tokens.
C5_OneTokenPerRun ==
    (pc = "done" /\ DefinedClassesOnly(source_code)) =>
        LET segs == Segments(source_code)
        IN  /\ Len(Result) = Len(segs) + 1
            /\ \A i \in 1..Len(segs) : Result[i].value = segs[i]
            /\ source_code = <<"a", "b", "c", "1", "2", "3">> =>
                  Result = <<Tok(<<"a", "b", "c">>, "Identifier"),
                             Tok(<<"1", "2", "3">>, "Number"), EofToken>>
            /\ source_code = TestSimpleCode =>
                  [i \in 1..Len(Result) |-> Result[i].type_] =
                      <<"Let", "Identifier", "Equals", "Number",
                        "BinaryOperator", "OpenParen", "Number",
                        "BinaryOperator", "Number", "CloseParen", "EOF">>

---------------------------------------------------------------------------
(* C6 *)

OpKind(c) ==
    IF c = "(" THEN "OpenParen"
    ELSE IF c = ")" THEN "CloseParen"
    ELSE IF c = "=" THEN "Equals"
    ELSE "BinaryOperator"

OpTypes == {"OpenParen", "CloseParen", "Equals", "BinaryOperator"}

C6_Examples ==
    /\ source_code = <<"=", "=">> =>
          Result = <<Tok(<<"=">>, "Equals"), Tok(<<"=">>, "Equals"), EofToken>>
    /\ source_code = <<"*", "*">> =>
          Result = <<Tok(<<"*">>, "BinaryOperator"),
                     Tok(<<"*">>, "BinaryOperator"), EofToken>>
    /\ source_code = <<"-", "5">> =>
          Result = <<Tok(<<"-">>, "BinaryOperator"), Tok(<<"5">>, "Number"),
                     EofToken>>
    /\ LET ops == SelectSeq(source_code, LAMBDA c : c \in OperatorChars)
           opToks == SelectSeq(Result, LAMBDA t : t.type_ \in OpTypes)
       IN  /\ Len(opToks) = Len(ops)
           /\ \A i \in 1..Len(ops) :
                 opToks[i] = Tok(<<ops[i]>>, OpKind(ops[i]))

C6_Step ==
    (pc = "scan" /\ src # <<>> /\ Head(src) \in OperatorChars) =>
        /\ tokens' = Append(tokens, Tok(<<Head(src)>>, OpKind(Head(src))))
        /\ src' = Tail(src)

\* C6: an operator character at the cursor is consumed alone and appended
\* as one token with that character as lexeme and the kind fixed by the
\* character, whatever precedes or follows; the operator tokens of the
\* result are the operator characters of the input in order; "==" gives
\* two Equals, "**" two BinaryOperator, "-5" [BinaryOperator, Number, EOF].
C6_SingleCharOperators ==
    [][C6_Step /\ (pc' = "done" => C6_Examples')]_vars

C6_Witness ==
    /\ pc = "done"
    /\ source_code = <<"-", "5">>
    /\ Result = <<Tok(<<"-">>, "BinaryOperator"), Tok(<<"5">>, "Number"),
                  EofToken>>

---------------------------------------------------------------------------
(* C7 *)

\* What has been scanned so far is the input without its whitespace.
C7_Erasure ==
    /\ \A i \in 1..Len(tokens) :
          tokens[i].type_ # "EOF" =>
              /\ tokens[i].value # <<>>
              /\ \A j \in 1..Len(tokens[i].value) :
                    ~IsWhitespace(tokens[i].value[j])
    /\ pc = "scan" =>
          ConcatValues(tokens) \o StripWhitespace(src) =
              StripWhitespace(source_code)
    /\ pc = "done" =>
          /\ ConcatValues(Front(Result)) = StripWhitespace(source_code)
          /\ StripWhitespace(source_code) = <<>> => Result = <<EofToken>>

C7_Step ==
    (pc = "scan" /\ src # <<>> /\ IsWhitespace(Head(src))) =>
        /\ src' = Tail(src)
        /\ tokens' = tokens

\* C7: a whitespace character at the cursor is consumed alone and appends
\* nothing; no lexeme holds a whitespace character; the lexemes of the
\* tokens before the EOF, concatenated in order, are the input with its
\* whitespace removed, so a whitespace-only input gives exactly [EOF].
C7_WhitespaceErasure ==
    [][C7_Step /\ C7_Erasure']_vars

C7_Witness ==
    /\ pc = "done"
    /\ source_code = TestWhitespaces
    /\ Result = <<EofToken>>

---------------------------------------------------------------------------
(* C8 *)

C8_Step ==
    pc = "scan" =>
        /\ pc' = "scan" =>
              /\ Len(src') < Len(src)
              /\ src' = Suffix(src, Len(src) - Len(src') + 1)
        /\ pc' = "done" <=> src = <<>>
        /\ pc' = "done" =>
              /\ tokens' = Append(tokens, EofToken)
              /\ returned' = <<tokens'>>

\* C8: every iteration of the scan loop removes at least one character
\* from the front of the remaining input, the loop is left exactly when
\* the remaining input is empty, the EOF token is then appended and the
\* sequence returned; on an input of classed characters only the call
\* ends in that return.
C8_Terminates ==
    /\ [][C8_Step]_vars
    /\ (~HasUnrecognized(source_code)) ~> (pc = "done")

C8_Witness ==
    /\ pc = "done"
    /\ source_code = TestSimpleCode
    /\ src = <<>>
    /\ Len(Result) = 11

---------------------------------------------------------------------------
(* C9 *)

\* C9: the lexeme of every Number token is made of the characters 0-9
\* only, and an input with a character that is none of 0-9, a letter,
\* whitespace or an operator character never ends in a return.
C9_DecimalDigitsOnly ==
    /\ \A i \in 1..Len(tokens) :
          tokens[i].type_ = "Number" =>
              \A j \in 1..Len(tokens[i].value) :
                  tokens[i].value[j] \in AsciiDigits
    /\ ~DefinedClassesOnly(source_code) => pc # "done"

---------------------------------------------------------------------------
(* C10 *)

WithoutNumbers(toks) == SelectSeq(toks, LAMBDA t : t.type_ # "Number")

\* C10: the duplicate scanner ends as the scanner of lexer/lexer.rs does
\* on the same input, both in a panic or both in a return, and what it
\* returns is what lexer/lexer.rs returns with the Number tokens removed.
C10_DuplicateDropsNumbers ==
    /\ dup_pc # "scan" => dup_pc = pc
    /\ (pc # "scan" /\ dup_pc = "scan") => ENABLED DupNext
    /\ Len(dup_returned) = 1 <=> dup_pc = "done"
    /\ dup_pc = "done" =>
          /\ dup_returned[1] = WithoutNumbers(Result)
          /\ (\A i \in 1..Len(source_code) : ~IsNumeric(source_code[i])) =>
                dup_returned[1] = Result

C10_Witness ==
    /\ dup_pc = "done"
    /\ source_code = TestSimpleCode
    /\ Len(Result) = 11
    /\ Len(dup_returned[1]) = 8

=============================================================================
